---- MODULE Spec2Model ----
(***************************************************************************)
(* testipynb: discovery of the notebooks under a directory, construction   *)
(* of one unittest test per notebook, and the run of the suite.            *)
(* Strings the program slices, joins or compares by suffix are sequences   *)
(* of one-character strings, so that endswith, [:-6], split/join and "+"   *)
(* are computed the way the program computes them.                         *)
(***************************************************************************)
EXTENDS Integers, Sequences, FiniteSets

VARIABLES
    tree,             \* the file system under `directory`, as os.walk yields it
    ignore,           \* TestNotebooks.ignore
    py2_ignore,       \* TestNotebooks.py2_ignore
    version,          \* sys.version_info[0]
    nbnames,          \* TestNotebooks._nbnames
    nbpaths,          \* TestNotebooks._nbpaths
    test_dict_cache,  \* TestNotebooks._test_dict (built = FALSE: still None)
    suite,            \* the unittest.TestSuite of run_tests, in run order
    case_ignore,      \* the ignore attribute of the generated TestCase class
    case_py2_ignore,  \* the py2_ignore attribute of the generated TestCase class
    pc,               \* "new", "constructed", "idle", "intest", "done"
    idx,              \* number of tests of the suite that have ended
    cwd,              \* the working directory of the process
    saved_cwd,        \* test_func's local variable cwd
    result,           \* the unittest.TestResult of the run
    stdout,           \* what the tests have printed
    log,              \* history: per ended test, what the environment did
    returned          \* the value run_tests returned (meaningful when pc = "done")

vars == <<tree, ignore, py2_ignore, version, nbnames, nbpaths, test_dict_cache,
          suite, case_ignore, case_py2_ignore, pc, idx, cwd, saved_cwd, result,
          stdout, log, returned>>

-----------------------------------------------------------------------------
(* Bounds of the model *)

MaxFiles == 2      \* files per directory
MaxCells == 2      \* cells per executed notebook
MaxOutputs == 2    \* outputs per code cell

-----------------------------------------------------------------------------
(* String constants of the program *)

sep == "/"
IpynbSuffix == <<".", "i", "p", "y", "n", "b">>
CheckpointSuffix == <<"-", "c", "h", "e", "c", "k", "p", "o", "i", "n", "t">> \o IpynbSuffix
TestPrefix == <<"t", "e", "s", "t", "_">>
ExtLen == 6
LegacyMajor == 2

-----------------------------------------------------------------------------
(* Inputs: directories, file names, configurations *)

NameA == <<"a">>
NameB == <<"b">>
NameC == <<"c">>
FileA == NameA \o IpynbSuffix
FileB == NameB \o IpynbSuffix
FileC == NameC \o IpynbSuffix
FileCheckpoint == NameA \o CheckpointSuffix
FileOther == NameB \o IpynbSuffix \o <<".", "b", "a", "k">>

Root == <<"/", "r">>
Dirs == <<Root, Root \o <<sep, "s">>, Root \o <<sep, "s", sep, "t">>>>
StartDir == <<"/", "w">>

Injective(s) == \A i, j \in DOMAIN s : s[i] = s[j] => i = j

\* the listings of one directory: at most n distinct file names, in any order
Listings(files, n) ==
    {s \in UNION {[1..k -> files] : k \in 0..n} : Injective(s)}

\* what os.walk yields, top-down, for the first nd directories of Dirs
Trees(nd, files, n) ==
    {[d \in 1..nd |-> [dirname |-> Dirs[d], filenames |-> l[d]]] :
        l \in [1..nd -> Listings(files, n)]}

Orderings(s) ==
    {[i \in DOMAIN s |-> s[p[i]]] :
        p \in {q \in [DOMAIN s -> DOMAIN s] : Injective(q)}}

-----------------------------------------------------------------------------
(* __init__: the walk of the directory *)

endswith(s, suffix) ==
    /\ Len(s) >= Len(suffix)
    /\ SubSeq(s, Len(s) - Len(suffix) + 1, Len(s)) = suffix

\* filename[:-6]
StripExt(filename) ==
    IF Len(filename) > ExtLen THEN SubSeq(filename, 1, Len(filename) - ExtLen) ELSE <<>>

\* variant: the "-checkpoint.ipynb" exclusion left out
IsNotebookFile_KeepsCheckpoints(filename) == endswith(filename, IpynbSuffix)

IsNotebookFile(filename) ==
    endswith(filename, IpynbSuffix) /\ ~endswith(filename, CheckpointSuffix)

RECURSIVE ScanFiles(_, _)
ScanFiles(dirname, filenames) ==
    IF filenames = <<>> THEN <<>>
    ELSE LET filename == Head(filenames)
             rest == ScanFiles(dirname, Tail(filenames))
         IN  IF IsNotebookFile(filename)
             THEN <<[nbpath |-> dirname \o <<sep>> \o filename,
                     nbname |-> StripExt(filename)]>> \o rest
             ELSE rest

RECURSIVE WalkTree(_)
WalkTree(t) ==
    IF t = <<>> THEN <<>>
    ELSE ScanFiles(Head(t).dirname, Head(t).filenames) \o WalkTree(Tail(t))

-----------------------------------------------------------------------------
(* test_dict: a Python dict keyed by "test_" + notebook *)

\* tests[key] = val: a new key goes last, an existing key keeps its place
DictSet(tests, entry) ==
    IF \E i \in DOMAIN tests : tests[i].key = entry.key
    THEN [i \in DOMAIN tests |-> IF tests[i].key = entry.key THEN entry ELSE tests[i]]
    ELSE Append(tests, entry)

Min(a, b) == IF a <= b THEN a ELSE b

RECURSIVE BuildFrom(_, _, _, _)
BuildFrom(tests, names, paths, i) ==
    IF i > Min(Len(names), Len(paths)) THEN tests
    ELSE BuildFrom(DictSet(tests, [key |-> TestPrefix \o names[i],
                                   nbname |-> names[i],
                                   nbpath |-> paths[i]]),
                   names, paths, i + 1)

BuildTestDict(names, paths) == BuildFrom(<<>>, names, paths, 1)

\* the property test_dict: built on first use, cached in _test_dict
TestDictOf(cache, names, paths) ==
    IF cache.built THEN cache.tests ELSE BuildTestDict(names, paths)

\* the orders in which dict.keys() can yield the keys: insertion order on
\* Python 3, an arbitrary order on Python 2
KeyOrders(tests, v) == IF v = LegacyMajor THEN Orderings(tests) ELSE {tests}

-----------------------------------------------------------------------------
(* Executed notebooks: what nbformat and the ExecutePreprocessor hand back *)

ENames == {"NameError", "ValueError"}
StreamOutput == [output_type |-> "stream", text |-> "ok"]
ErrorOutput(e) ==
    [output_type |-> "error", ename |-> e, traceback |-> <<"Traceback", e>>]
OutputPool == {StreamOutput} \cup {ErrorOutput(e) : e \in ENames}

\* a markdown cell has no "outputs" key
MarkdownCell(i) == [cell_type |-> "markdown", source |-> <<"md", i>>]
CodeCell(i, n, outputs) ==
    [cell_type |-> "code", execution_count |-> n, source |-> <<"In", i>>,
     outputs |-> outputs]

CellShapes(no) ==
    {[code |-> FALSE, outputs |-> <<>>]}
    \cup {[code |-> TRUE, outputs |-> o] :
            o \in UNION {[1..k -> OutputPool] : k \in 0..no}}

\* code cells are numbered in document order, as the kernel numbers them
CellsOf(shape) ==
    [i \in DOMAIN shape |->
        IF shape[i].code
        THEN CodeCell(i, Cardinality({j \in 1..i : shape[j].code}), shape[i].outputs)
        ELSE MarkdownCell(i)]

ExecutedNotebooks(nc, no) ==
    {CellsOf(s) : s \in UNION {[1..k -> CellShapes(no)] : k \in 0..nc}}

InfraErrors == {"LoadError", "ExecutionTimeout", "KernelError"}
Raises(kind) == [kind |-> kind, cells |-> <<>>]
Executed(cells) == [kind |-> "executed", cells |-> cells]

Behaviours(nc, no) ==
    {Raises(k) : k \in InfraErrors} \cup {Executed(c) : c \in ExecutedNotebooks(nc, no)}

\* the behaviours the suite-level specification draws from
RunBehaviours ==
    {Raises(k) : k \in InfraErrors}
    \cup {Executed(<<CodeCell(1, 1, <<StreamOutput>>)>>),
          Executed(<<CodeCell(1, 1, <<ErrorOutput("NameError")>>)>>)}

-----------------------------------------------------------------------------
(* test_func *)

\* variant: py2_ignore is never consulted
ShouldSkip_IgnoreOnly(nbname, ign, py2, v) == nbname \in ign

\* variant: py2_ignore applies on every version
ShouldSkip_AnyVersion(nbname, ign, py2, v) == (nbname \in ign) \/ (nbname \in py2)

ShouldSkip(nbname, ign, py2, v) ==
    (nbname \in ign) \/ (nbname \in py2 /\ v = LegacyMajor)

\* os.path.sep.join(nbpath.split(os.path.sep)[:-1])
LastSep(p) ==
    LET S == {i \in DOMAIN p : p[i] = sep}
    IN  IF S = {} THEN 0 ELSE CHOOSE i \in S : \A j \in S : j <= i

RunPath(nbpath) == SubSeq(nbpath, 1, LastSep(nbpath) - 1)

\* the fields formatted into msg, the message of the assert
FailMsg(nbname, cell, output) ==
    [nbname |-> nbname, ename |-> output.ename,
     execution_count |-> cell.execution_count, source |-> cell.source]

NoMsg == [nbname |-> <<>>]

\* the loop over cell["outputs"]; visited counts the outputs looked at
RECURSIVE ScanOutputs(_, _, _, _)
ScanOutputs(nbname, cell, outputs, visited) ==
    IF outputs = <<>> THEN [passing |-> TRUE, msg |-> NoMsg, visited |-> visited]
    ELSE IF Head(outputs).output_type = "error"
         THEN [passing |-> FALSE, msg |-> FailMsg(nbname, cell, Head(outputs)),
               visited |-> visited + 1]
         ELSE ScanOutputs(nbname, cell, Tail(outputs), visited + 1)

\* the loop over out[0]["cells"]: the assert raises at the first error output
RECURSIVE ScanCells(_, _, _)
ScanCells(nbname, cells, visited) ==
    IF cells = <<>> THEN [passing |-> TRUE, msg |-> NoMsg, visited |-> visited]
    ELSE IF "outputs" \in DOMAIN Head(cells)
         THEN LET r == ScanOutputs(nbname, Head(cells), Head(cells).outputs, visited)
              IN  IF r.passing THEN ScanCells(nbname, Tail(cells), r.visited) ELSE r
         ELSE ScanCells(nbname, Tail(cells), visited)

\* variant: the assert left out, so an error output never fails the test
Interpret_NeverAsserts(nbname, cells) ==
    [passing |-> TRUE, msg |-> NoMsg, visited |-> ScanCells(nbname, cells, 0).visited]

\* variant: the assert after the loops, so the last error output's message stands
RECURSIVE ScanAllOutputs(_, _, _, _)
ScanAllOutputs(nbname, cell, outputs, acc) ==
    IF outputs = <<>> THEN acc
    ELSE ScanAllOutputs(nbname, cell, Tail(outputs),
            IF Head(outputs).output_type = "error"
            THEN [passing |-> FALSE, msg |-> FailMsg(nbname, cell, Head(outputs)),
                  visited |-> acc.visited + 1]
            ELSE [acc EXCEPT !.visited = @ + 1])

RECURSIVE ScanAllCells(_, _, _)
ScanAllCells(nbname, cells, acc) ==
    IF cells = <<>> THEN acc
    ELSE ScanAllCells(nbname, Tail(cells),
            IF "outputs" \in DOMAIN Head(cells)
            THEN ScanAllOutputs(nbname, Head(cells), Head(cells).outputs, acc)
            ELSE acc)

Interpret_LastErrorWins(nbname, cells) ==
    ScanAllCells(nbname, cells, [passing |-> TRUE, msg |-> NoMsg, visited |-> 0])

Interpret(nbname, cells) == ScanCells(nbname, cells, 0)

-----------------------------------------------------------------------------
(* unittest.TestResult *)

NewResult == [testsRun |-> 0, failures |-> <<>>, errors |-> <<>>, skipped |-> <<>>]
startTest(res) == [res EXCEPT !.testsRun = @ + 1]
addFailure(res, key, msg) == [res EXCEPT !.failures = Append(@, [test |-> key, err |-> msg])]
\* variant: an exception of the test is swallowed
addError_Swallowed(res, key, kind) == res

addError(res, key, kind) == [res EXCEPT !.errors = Append(@, [test |-> key, err |-> kind])]
\* variant: only assertion failures count
wasSuccessful_FailuresOnly(res) == Len(res.failures) = 0

wasSuccessful(res) == Len(res.failures) = 0 /\ Len(res.errors) = 0

-----------------------------------------------------------------------------
(* State machine *)

InitWith(trees, ignores, py2s, versions) ==
    /\ tree \in trees
    /\ ignore \in ignores
    /\ py2_ignore \in py2s
    /\ version \in versions
    /\ nbnames = <<>>
    /\ nbpaths = <<>>
    /\ test_dict_cache = [built |-> FALSE, tests |-> <<>>]
    /\ suite = <<>>
    /\ case_ignore = {}
    /\ case_py2_ignore = {}
    /\ pc = "new"
    /\ idx = 0
    /\ cwd = StartDir
    /\ saved_cwd = StartDir
    /\ result = NewResult
    /\ stdout = <<>>
    /\ log = <<>>
    /\ returned = FALSE

\* TestNotebooks.__init__
Construct ==
    /\ pc = "new"
    /\ LET found == WalkTree(tree)
       IN  /\ nbpaths' = [i \in DOMAIN found |-> found[i].nbpath]
           /\ nbnames' = [i \in DOMAIN found |-> found[i].nbname]
    /\ pc' = "constructed"
    /\ UNCHANGED <<tree, ignore, py2_ignore, version, test_dict_cache, suite,
                   case_ignore, case_py2_ignore, idx, cwd, saved_cwd, result,
                   stdout, log, returned>>

\* a first read of the property test_dict
AccessTestDict ==
    /\ pc = "constructed"
    /\ ~test_dict_cache.built
    /\ test_dict_cache' =
          [built |-> TRUE, tests |-> TestDictOf(test_dict_cache, nbnames, nbpaths)]
    /\ UNCHANGED <<tree, ignore, py2_ignore, version, nbnames, nbpaths, suite,
                   case_ignore, case_py2_ignore, pc, idx, cwd, saved_cwd, result,
                   stdout, log, returned>>

\* run_tests up to the start of the runner: get_tests(), the TestSuite
RunTestsBegin ==
    /\ pc = "constructed"
    /\ LET tests == TestDictOf(test_dict_cache, nbnames, nbpaths)
       IN  /\ test_dict_cache' = [built |-> TRUE, tests |-> tests]
           /\ suite' \in KeyOrders(tests, version)
    /\ case_ignore' = ignore
    /\ case_py2_ignore' = py2_ignore
    /\ result' = NewResult
    /\ idx' = 0
    /\ pc' = "idle"
    /\ UNCHANGED <<tree, ignore, py2_ignore, version, nbnames, nbpaths, cwd,
                   saved_cwd, stdout, log, returned>>

\* test_func from its first line to the chdir into the notebook's directory
StartTest ==
    /\ pc = "idle"
    /\ idx < Len(suite)
    /\ LET t == suite[idx + 1]
       IN  /\ saved_cwd' = cwd
           /\ IF ShouldSkip(t.nbname, case_ignore, case_py2_ignore, version)
              THEN /\ stdout' = stdout \o <<[line |-> "Testing", nbname |-> t.nbname],
                                            [line |-> "Skipping", nbname |-> t.nbname]>>
                   /\ result' = startTest(result)
                   /\ log' = Append(log, [test |-> t, skipped |-> TRUE,
                                          beh |-> Executed(<<>>), visited |-> 0])
                   /\ idx' = idx + 1
                   /\ UNCHANGED <<cwd, pc>>
              ELSE /\ stdout' = Append(stdout, [line |-> "Testing", nbname |-> t.nbname])
                   /\ result' = startTest(result)
                   /\ cwd' = RunPath(t.nbpath)
                   /\ pc' = "intest"
                   /\ UNCHANGED <<log, idx>>
    /\ UNCHANGED <<tree, ignore, py2_ignore, version, nbnames, nbpaths,
                   test_dict_cache, suite, case_ignore, case_py2_ignore, returned>>

\* test_func from the load of the notebook to its end; unittest records the result
RunNotebook(b) ==
    /\ pc = "intest"
    /\ LET t == suite[idx + 1]
           r == Interpret(t.nbname, b.cells)
       IN  IF b.kind \in InfraErrors
           THEN /\ result' = addError(result, t.key, b.kind)
                /\ log' = Append(log, [test |-> t, skipped |-> FALSE, beh |-> b,
                                       visited |-> 0])
                /\ UNCHANGED <<cwd, stdout>>
           ELSE /\ cwd' = saved_cwd
                /\ log' = Append(log, [test |-> t, skipped |-> FALSE, beh |-> b,
                                       visited |-> r.visited])
                /\ IF r.passing
                   THEN /\ stdout' = Append(stdout, [line |-> "Passed", nbname |-> t.nbname])
                        /\ UNCHANGED result
                   ELSE /\ stdout' = Append(stdout, [line |-> "FAILED", nbname |-> t.nbname,
                                                     msg |-> r.msg])
                        /\ result' = addFailure(result, t.key, r.msg)
    /\ idx' = idx + 1
    /\ pc' = "idle"
    /\ UNCHANGED <<tree, ignore, py2_ignore, version, nbnames, nbpaths,
                   test_dict_cache, suite, case_ignore, case_py2_ignore, saved_cwd,
                   returned>>

\* the end of run_tests: result.wasSuccessful()
RunTestsEnd ==
    /\ pc = "idle"
    /\ idx = Len(suite)
    /\ returned' = wasSuccessful(result)
    /\ pc' = "done"
    /\ UNCHANGED <<tree, ignore, py2_ignore, version, nbnames, nbpaths,
                   test_dict_cache, suite, case_ignore, case_py2_ignore, idx, cwd,
                   saved_cwd, result, stdout, log>>

\* the run of a suite over small trees and every configuration
Init ==
    InitWith(Trees(2, {FileA, FileB, FileC}, MaxFiles),
             SUBSET {NameA, NameB}, SUBSET {NameA, NameB}, {LegacyMajor, 3})

Next ==
    \/ Construct
    \/ RunTestsBegin
    \/ StartTest
    \/ (pc = "intest" /\ \E b \in RunBehaviours : RunNotebook(b))
    \/ RunTestsEnd

Spec == Init /\ [][Next]_vars

\* discovery and the test dictionary over trees of every kind of file
InitDiscover ==
    InitWith(Trees(3, {FileA, FileB, FileCheckpoint, FileOther}, MaxFiles),
             {{}}, {{}}, {3})

NextDiscover == Construct \/ AccessTestDict

SpecDiscover == InitDiscover /\ [][NextDiscover]_vars

\* one notebook, every executed document within the bounds
InitTest ==
    InitWith({<<[dirname |-> Root, filenames |-> <<FileA>>]>>},
             {{}, {NameA}}, {{}}, {3})

NextTest ==
    \/ Construct
    \/ RunTestsBegin
    \/ StartTest
    \/ (pc = "intest" /\ \E b \in Behaviours(MaxCells, MaxOutputs) : RunNotebook(b))
    \/ RunTestsEnd

SpecTest == InitTest /\ [][NextTest]_vars

-----------------------------------------------------------------------------
(* Vocabulary of the properties: stated on the inputs, not on the program *)

HasSuffix(s, suffix) == \E k \in 0..Len(s) : SubSeq(s, 1, k) \o suffix = s

RECURSIVE OutputsInOrder(_)
OutputsInOrder(cells) ==
    IF cells = <<>> THEN <<>>
    ELSE (IF "outputs" \in DOMAIN Head(cells)
          THEN [j \in DOMAIN Head(cells).outputs |->
                   [cell |-> Head(cells), output |-> Head(cells).outputs[j]]]
          ELSE <<>>) \o OutputsInOrder(Tail(cells))

IsErrorAt(o) == o.output.output_type = "error"
ErrorsInOrder(cells) == SelectSeq(OutputsInOrder(cells), IsErrorAt)
HasErrorOutput(cells) == ErrorsInOrder(cells) # <<>>
MsgOf(nbname, o) == FailMsg(nbname, o.cell, o.output)
PositionOfFirstError(cells) ==
    CHOOSE k \in DOMAIN OutputsInOrder(cells) :
        /\ IsErrorAt(OutputsInOrder(cells)[k])
        /\ \A j \in 1..(k - 1) : ~IsErrorAt(OutputsInOrder(cells)[j])

Ran(e) == ~e.skipped /\ e.beh.kind = "executed"
Raised(e) == ~e.skipped /\ e.beh.kind \in InfraErrors
TestFailed(e) == Raised(e) \/ (Ran(e) /\ HasErrorOutput(e.beh.cells))
FailuresOf(key) == {j \in DOMAIN result.failures : result.failures[j].test = key}
ErrorsOf(key) == {j \in DOMAIN result.errors : result.errors[j].test = key}
SkippedOf(key) == {j \in DOMAIN result.skipped : result.skipped[j].test = key}
Printed(line, nbname) ==
    \E k \in DOMAIN stdout : stdout[k] = [line |-> line, nbname |-> nbname]
ConfiguredSkip(nbname) ==
    nbname \in ignore \/ (nbname \in py2_ignore /\ version = 2)

-----------------------------------------------------------------------------
(* Properties *)

\* C1: run_tests returns True if and only if no test of the suite failed:
\* passes and skips yield True, a failing or raising notebook yields False.
C1_ReturnsTrueIffNoFailure ==
    pc = "done" => (returned <=> \A i \in DOMAIN log : ~TestFailed(log[i]))

C1_Witness ==
    /\ pc = "done"
    /\ returned
    /\ \E i, j \in DOMAIN log : log[i].skipped /\ Ran(log[j])

\* C2: after a test has ended, on every way out, the working directory is the
\* one the test observed when it started.
C2_CwdRestoredOnEveryExit ==
    (pc \in {"idle", "done"} /\ idx > 0) => cwd = saved_cwd

\* C3 (as stated): a notebook to skip does not change the working directory, is
\* neither loaded nor executed, and is recorded as skipped, not as passed.
C3_RecordedAsSkipped ==
    \A i \in DOMAIN log : log[i].skipped => SkippedOf(log[i].test.key) # {}

\* C3 (amended): the test of a notebook to skip ends in its first step: the
\* working directory is unchanged, nothing is loaded or executed, it prints
\* "Skipping" and nothing else about the notebook, and unittest counts it as a
\* test run with no failure, no error and no skip record.
C3_SkipHasNoEffect ==
    [][(pc = "idle" /\ idx < Len(suite) /\ ConfiguredSkip(suite[idx + 1].nbname))
        => /\ cwd' = cwd
           /\ pc' = "idle"
           /\ idx' = idx + 1
           /\ result' = [result EXCEPT !.testsRun = @ + 1]
           /\ stdout' = stdout \o
                <<[line |-> "Testing", nbname |-> suite[idx + 1].nbname],
                  [line |-> "Skipping", nbname |-> suite[idx + 1].nbname]>>]_vars

C3_Witness ==
    \E i \in DOMAIN log :
        /\ log[i].skipped
        /\ Printed("Skipping", log[i].test.nbname)
        /\ result.testsRun >= i

\* C4: an executed notebook with an error output in any cell fails with an
\* assertion; one without passes with no failure detail; cells with no
\* outputs collection are passed over.
C4_FailsIffErrorOutput ==
    \A i \in DOMAIN log :
        Ran(log[i]) =>
            /\ HasErrorOutput(log[i].beh.cells) <=> FailuresOf(log[i].test.key) # {}
            /\ ErrorsOf(log[i].test.key) = {}
            /\ ~HasErrorOutput(log[i].beh.cells) <=> Printed("Passed", log[i].test.nbname)

C4_Witness ==
    \E i \in DOMAIN log :
        /\ Ran(log[i])
        /\ \E c \in DOMAIN log[i].beh.cells : "outputs" \notin DOMAIN log[i].beh.cells[c]
        /\ HasErrorOutput(log[i].beh.cells)
        /\ FailuresOf(log[i].test.key) # {}

\* C5 (as stated): the scan goes on after an error output, and the reported
\* message is that of the last error output of the notebook.
C5_LastErrorReported ==
    \A i \in DOMAIN log :
        (Ran(log[i]) /\ HasErrorOutput(log[i].beh.cells)) =>
            LET errs == ErrorsInOrder(log[i].beh.cells)
            IN  \A j \in FailuresOf(log[i].test.key) :
                    result.failures[j].err = MsgOf(log[i].test.nbname, errs[Len(errs)])

\* C5 (amended): the scan stops at the first error output, in cell and output
\* order, and the reported message is that of this first error output.
C5_FirstErrorReported ==
    \A i \in DOMAIN log :
        (Ran(log[i]) /\ HasErrorOutput(log[i].beh.cells)) =>
            LET errs == ErrorsInOrder(log[i].beh.cells)
            IN  /\ log[i].visited = PositionOfFirstError(log[i].beh.cells)
                /\ Cardinality(FailuresOf(log[i].test.key)) = 1
                /\ \A j \in FailuresOf(log[i].test.key) :
                      result.failures[j].err = MsgOf(log[i].test.nbname, errs[1])

C5_Witness ==
    \E i \in DOMAIN log :
        /\ Ran(log[i])
        /\ LET errs == ErrorsInOrder(log[i].beh.cells)
           IN  /\ Len(errs) >= 2
               /\ MsgOf(log[i].test.nbname, errs[1])
                    # MsgOf(log[i].test.nbname, errs[Len(errs)])
               /\ \E j \in FailuresOf(log[i].test.key) :
                     result.failures[j].err = MsgOf(log[i].test.nbname, errs[1])

\* C6: the test dictionary holds exactly one test per discovered notebook (two
\* notebooks of one name are an error, never a silent replacement).
C6_OneTestPerNotebook ==
    test_dict_cache.built =>
        /\ Len(test_dict_cache.tests) = Len(nbnames)
        /\ \A i \in DOMAIN nbpaths :
              \E k \in DOMAIN test_dict_cache.tests :
                  test_dict_cache.tests[k].nbpath = nbpaths[i]

\* C7: discovery yields exactly one (name, path) pair per file, at any depth,
\* that ends with ".ipynb" and not with "-checkpoint.ipynb", none for any
\* other file; name + ".ipynb" is the file name, path is directory + "/" +
\* file name, and names and paths correspond index by index.
C7_DiscoveryExact ==
    pc # "new" =>
        /\ Len(nbnames) = Len(nbpaths)
        /\ \A d \in DOMAIN tree : \A f \in DOMAIN tree[d].filenames :
              LET filename == tree[d].filenames[f]
                  path == tree[d].dirname \o <<"/">> \o filename
                  hits == {i \in DOMAIN nbpaths : nbpaths[i] = path}
              IN  IF HasSuffix(filename, <<".", "i", "p", "y", "n", "b">>)
                     /\ ~HasSuffix(filename, <<"-", "c", "h", "e", "c", "k", "p", "o",
                                               "i", "n", "t", ".", "i", "p", "y", "n", "b">>)
                  THEN /\ Cardinality(hits) = 1
                       /\ \A i \in hits :
                             nbnames[i] \o <<".", "i", "p", "y", "n", "b">> = filename
                  ELSE hits = {}
        /\ \A i \in DOMAIN nbpaths :
              \E d \in DOMAIN tree : \E f \in DOMAIN tree[d].filenames :
                  nbpaths[i] = tree[d].dirname \o <<"/">> \o tree[d].filenames[f]

C7_Witness ==
    /\ pc = "constructed"
    /\ \E f \in DOMAIN tree[1].filenames : tree[1].filenames[f] = FileCheckpoint
    /\ \E f \in DOMAIN tree[2].filenames : tree[2].filenames[f] = FileOther
    /\ Len(tree[3].filenames) = 2
    /\ Len(nbnames) = 3

\* C8: a test is skipped exactly when its notebook's name is in ignore, or in
\* py2_ignore while the major version is 2.
C8_SkipDecision ==
    \A i \in DOMAIN log :
        log[i].skipped <=>
            \/ log[i].test.nbname \in ignore
            \/ (log[i].test.nbname \in py2_ignore /\ version = 2)

C8_Witness ==
    \E i, j \in DOMAIN log :
        /\ log[i].test.nbname \in py2_ignore \ ignore
        /\ version = 2
        /\ log[i].skipped
        /\ log[j].test.nbname \notin (ignore \cup py2_ignore)
        /\ ~log[j].skipped

\* C9: a notebook whose load or execution raises is one error of that
\* notebook's test; the tests after it still run, and run_tests returns False.
C9_RaiseIsOneFailure ==
    /\ \A i \in DOMAIN log :
          Raised(log[i]) =>
              /\ Cardinality(ErrorsOf(log[i].test.key)) = 1
              /\ FailuresOf(log[i].test.key) = {}
    /\ Len(result.errors) = Cardinality({i \in DOMAIN log : Raised(log[i])})
    /\ pc = "done" =>
          /\ Len(log) = Len(suite)
          /\ \A i \in DOMAIN log : log[i].test = suite[i]
          /\ (\E i \in DOMAIN log : Raised(log[i])) => ~returned

C9_Witness ==
    /\ pc = "done"
    /\ Len(log) = 2
    /\ Raised(log[1])
    /\ Ran(log[2])
    /\ ~returned

\* C10: the tests run one at a time in discovery order, and every discovered
\* notebook that is not skipped is executed exactly once.
IsToRun(nb) == ~ConfiguredSkip(nb.nbname)
IsExecuted(e) == ~e.skipped
C10_DiscoveryOrderExactlyOnce ==
    pc = "done" =>
        LET discovered == [i \in DOMAIN nbpaths |->
                              [nbname |-> nbnames[i], nbpath |-> nbpaths[i]]]
            expected == SelectSeq(discovered, IsToRun)
            executed == SelectSeq(log, IsExecuted)
        IN  [i \in DOMAIN executed |-> executed[i].test.nbpath]
              = [i \in DOMAIN expected |-> expected[i].nbpath]

====
